---- MODULE Spec2Model ----
(***************************************************************************)
(* Model of temperusb/snmp.py: the Updater that reads the TEMPer USB       *)
(* thermometers and publishes their temperatures as SNMP OIDs through      *)
(* snmp_passpersist.                                                       *)
(*                                                                         *)
(* Temperatures are floats in the source.  Here a reading is an integer    *)
(* count of 1/Scale degree Celsius, so that int() (truncation toward zero) *)
(* and max() are computed exactly as Python computes them.                 *)
(*                                                                         *)
(* Every statement of Updater that touches the lock, the device list or    *)
(* the OID table is one step of the calling thread; pc[t] is the position  *)
(* of thread t.  Thread 1 constructs the Updater and is the thread of the  *)
(* snmp_passpersist scheduler; thread 2 is a second caller of update().    *)
(***************************************************************************)
EXTENDS Integers, Sequences, FiniteSets, TLC

\* ---------------------------------------------------------------- bounds
\* Largest number of thermometers the transport reports.
MaxDevs == 4
\* Largest reading magnitude, in units of 1/Scale degree.
MaxReading == 3
\* Largest number of thermometers while two update() calls may overlap.
MaxOverlapDevs == 2

\* ------------------------------------------------------ program constants
ERROR_TEMPERATURE == 9999
\* Units per degree Celsius of the fixed-point readings.
Scale == 2

Threads == {1, 2}
NoThread == 0
\* Values d.get_temperature() can return.
Readings == {-MaxReading, -1, MaxReading - 1, MaxReading}

\* The APC aggregate OID and the Cisco per-device OIDs.
AggOid == "318.1.1.1.2.2.2.0"
DeviceOids == <<"9.9.13.1.3.1.3.1", "9.9.13.1.3.1.3.2", "9.9.13.1.3.1.3.3",
                "9.9.13.1.3.1.3.4", "9.9.13.1.3.1.3.5", "9.9.13.1.3.1.3.6">>

VARIABLES
    testmode,      \* self.testmode
    has_devs,      \* the attribute self.devs exists (it has been assigned)
    devs,          \* self.devs: the sequence of device handles
    usb_lock,      \* self.usb_lock: the thread holding it, or NoThread
    oids,          \* the value table of snmp_pp: OID -> integer
    pc,            \* position of each thread
    ret,           \* who called _initialize: "ctor" or "reinit"
    i,             \* loop index of each thread
    temperatures,  \* the local list of update()
    exc,           \* an exception is propagating in the thread
    h              \* per call history of each thread (not program state)

vars == <<testmode, has_devs, devs, usb_lock, oids, pc, ret, i, temperatures, exc, h>>

\* ------------------------------------------------------------ pure parts
\* int(x) of Python: truncation toward zero (\div rounds toward minus infinity).
TruncFloor(x) == x \div Scale
Trunc(x) == IF x >= 0 THEN x \div Scale ELSE -((-x) \div Scale)

\* max(s) of Python on a non-empty list: the first largest element.
RECURSIVE SeqMin(_)
SeqMin(s) ==
    IF Len(s) = 1 THEN s[1]
    ELSE LET m == SeqMin(Tail(s)) IN IF m < s[1] THEN m ELSE s[1]
RECURSIVE SeqMax(_)
SeqMax(s) ==
    IF Len(s) = 1 THEN s[1]
    ELSE LET m == SeqMax(Tail(s)) IN IF m > s[1] THEN m ELSE s[1]

\* temperatures[:3]
SliceTwo(s) == SubSeq(s, 1, IF Len(s) < 2 THEN Len(s) ELSE 2)
Slice3(s) == SubSeq(s, 1, IF Len(s) < 3 THEN Len(s) ELSE 3)

\* '9.9.13.1.3.1.3.%i' % (i+1), for the k-th device (k counts from 1).
DevOidShifted(k) == DeviceOids[k + 1]
DevOid(k) == DeviceOids[k]

\* The OIDs overwritten on failure, in the order of the loop.
SentinelOidsShort == <<AggOid, DevOid(1), DevOid(2)>>
SentinelOids == <<AggOid, DevOid(1), DevOid(2), DevOid(3)>>

\* The fixed values of test mode, in the order they are written.
SyntheticWritesSame == <<<<AggOid, 99>>, <<DevOid(1), 97>>, <<DevOid(2), 98>>, <<DevOid(3), 98>>>>
SyntheticWrites == <<<<AggOid, 99>>, <<DevOid(1), 97>>, <<DevOid(2), 98>>, <<DevOid(3), 99>>>>

\* snmp_pp.add_int(oid, v) on the value table tbl.
AddInt(tbl, oid, v) ==
    [o \in (DOMAIN tbl) \cup {oid} |-> IF o = oid THEN v ELSE tbl[o]]

RECURSIVE AddAll(_, _)
AddAll(tbl, ws) ==
    IF ws = <<>> THEN tbl
    ELSE AddAll(AddInt(tbl, Head(ws)[1], Head(ws)[2]), Tail(ws))

EmptyTable == [o \in {} |-> 0]

\* handler.get_devices() returning n thermometers: fresh, open handles.
DiscoveredAppend(n) == devs \o [k \in 1..n |-> [pos |-> k, closed |-> FALSE]]
Discovered(n) == [k \in 1..n |-> [pos |-> k, closed |-> FALSE]]

\* ---------------------------------------------------------------- history
\* What the current update() call of a thread has done so far.
\* cause: why the try block of update() failed; initFail: what raised in
\* _initialize; found: the number of handles get_devices() returned in the
\* _initialize that is running (-1: none); envFail: the transport failed during the call (a read, a close or
\* the discovery raised, or no device was found); prevClean: the previous
\* call of the scheduler thread (thread 1) ended without such a failure.
CleanHist ==
    [reinits |-> 0, wlog |-> <<>>, closeLog |-> <<>>, discs |-> 0, reads |-> 0,
     locks |-> 0, readFailed |-> FALSE, failed |-> FALSE, cause |-> "none",
     initFail |-> "none", found |-> -1, envFail |-> FALSE, prevClean |-> FALSE]

\* The history at the start of a call of thread t.
StartHist(t) == [CleanHist EXCEPT !.prevClean = h[t].prevClean]

Logged(t, oid, v, src) ==
    Append(h[t].wlog, [oid |-> oid, val |-> v, src |-> src])

\* ------------------------------------------------------------------- Init
Init ==
    /\ testmode \in BOOLEAN
    /\ has_devs = FALSE
    /\ devs = <<>>
    /\ usb_lock = NoThread
    /\ oids = EmptyTable
    /\ pc = [t \in Threads |-> IF t = 1 THEN "new" ELSE "idle"]
    /\ ret = [t \in Threads |-> "ctor"]
    /\ i = [t \in Threads |-> 1]
    /\ temperatures = [t \in Threads |-> <<>>]
    /\ exc = [t \in Threads |-> FALSE]
    /\ h = [t \in Threads |-> CleanHist]

\* The Updater object exists: __init__ has returned.
Constructed == pc[1] # "new" /\ \A t \in Threads : ret[t] = "ctor" => pc[t] \notin
                   {"init_lock", "init_disc", "init_read", "init_unlock"}

\* ------------------------------------------------- __init__ / _initialize
\* Updater.__init__: stores its arguments, creates the lock, calls _initialize.
Construct(t) ==
    /\ pc[t] = "new"
    /\ pc' = [pc EXCEPT ![t] = "init_lock"]
    /\ ret' = [ret EXCEPT ![t] = "ctor"]
    /\ UNCHANGED <<testmode, has_devs, devs, usb_lock, oids, i, temperatures, exc, h>>

\* with self.usb_lock: (entry) in _initialize; threading.Lock is not reentrant.
InitAcquire(t) ==
    /\ pc[t] = "init_lock"
    /\ usb_lock = NoThread
    /\ usb_lock' = t
    /\ pc' = [pc EXCEPT ![t] = "init_disc"]
    /\ h' = [h EXCEPT ![t].locks = @ + 1]
    /\ UNCHANGED <<testmode, has_devs, devs, oids, ret, i, temperatures, exc>>

\* An exception inside the try of _initialize: caught by its except clause
\* and logged; the with block is left normally.
OnInitRaiseEscape(t) == pc' = [pc EXCEPT ![t] = "raised"]
OnInitRaise(t) == pc' = [pc EXCEPT ![t] = "init_unlock"]

\* TemperHandler() and handler.get_devices(): either raises (self.devs is
\* then not assigned), or self.devs becomes the n discovered handles.
InitDiscover(t) ==
    /\ pc[t] = "init_disc"
    /\ \/ /\ OnInitRaise(t)
          /\ h' = [h EXCEPT ![t].discs = @ + 1, ![t].initFail = "discover",
                            ![t].envFail = TRUE]
          /\ UNCHANGED <<has_devs, devs, i>>
       \/ \E n \in 0..MaxDevs :
             /\ has_devs' = TRUE
             /\ devs' = Discovered(n)
             /\ h' = [h EXCEPT ![t].discs = @ + 1, ![t].found = n,
                               ![t].envFail = @ \/ n = 0]
             /\ i' = i
             /\ pc' = [pc EXCEPT ![t] = "init_read"]
    /\ UNCHANGED <<testmode, usb_lock, oids, ret, temperatures, exc>>

\* The loop logging the initial temperature of each device: all the reads
\* succeed, or the k-th raises and the except clause of _initialize ends the
\* loop. Either way nothing but the log is changed.
InitRead(t) ==
    /\ pc[t] = "init_read"
    /\ \E k \in 0..Len(devs) :
          IF k = 0
          THEN /\ pc' = [pc EXCEPT ![t] = "init_unlock"]
               /\ h' = h
          ELSE /\ OnInitRaise(t)
               /\ h' = [h EXCEPT ![t].initFail = "read", ![t].envFail = TRUE]
    /\ UNCHANGED <<testmode, has_devs, devs, usb_lock, oids, ret, i, temperatures, exc>>

\* End of the with block of _initialize; _initialize returns to __init__
\* or to _reinitialize, which returns to update(), which returns.
InitRelease(t) ==
    /\ pc[t] = "init_unlock"
    /\ usb_lock' = NoThread
    /\ pc' = [pc EXCEPT ![t] = IF ret[t] = "ctor" THEN "idle" ELSE "returned"]
    /\ h' = [h EXCEPT ![t].found = -1]
    /\ UNCHANGED <<testmode, has_devs, devs, oids, ret, i, temperatures, exc>>

\* ----------------------------------------------------------------- update
\* update() with self.testmode set: the four fixed add_int calls.
UpdateTest(t) ==
    /\ pc[t] = "idle"
    /\ Constructed
    /\ testmode
    /\ oids' = AddAll(oids, SyntheticWrites)
    /\ h' = [h EXCEPT ![t] =
                [StartHist(t) EXCEPT !.wlog =
                    [k \in 1..Len(SyntheticWrites) |->
                        [oid |-> SyntheticWrites[k][1], val |-> SyntheticWrites[k][2],
                         src |-> "synthetic"]]]]
    /\ pc' = [pc EXCEPT ![t] = "returned"]
    /\ UNCHANGED <<testmode, has_devs, devs, usb_lock, ret, i, temperatures, exc>>

\* update() in normal mode: entry of the try block.
UpdateEnter(t) ==
    /\ pc[t] = "idle"
    /\ Constructed
    /\ ~testmode
    /\ h' = [h EXCEPT ![t] = StartHist(t)]
    /\ pc' = [pc EXCEPT ![t] = "upd_lock"]
    /\ UNCHANGED <<testmode, has_devs, devs, usb_lock, oids, ret, i, temperatures, exc>>

\* with self.usb_lock: (entry) in update().
UpdAcquire(t) ==
    /\ pc[t] = "upd_lock"
    /\ usb_lock = NoThread
    /\ usb_lock' = t
    /\ i' = [i EXCEPT ![t] = 1]
    /\ temperatures' = [temperatures EXCEPT ![t] = <<>>]
    /\ h' = [h EXCEPT ![t].locks = @ + 1]
    /\ pc' = [pc EXCEPT ![t] = "upd_read"]
    /\ UNCHANGED <<testmode, has_devs, devs, oids, ret, exc>>

\* A get_temperature() of the list comprehension raises: the comprehension
\* is abandoned, temperatures is never bound, the with block is left.
OnReadRaiseSkip(t) ==
    /\ i' = [i EXCEPT ![t] = @ + 1]
    /\ UNCHANGED <<temperatures, exc, pc>>
OnReadRaise(t) ==
    /\ exc' = [exc EXCEPT ![t] = TRUE]
    /\ temperatures' = [temperatures EXCEPT ![t] = <<>>]
    /\ i' = [i EXCEPT ![t] = 1]
    /\ pc' = [pc EXCEPT ![t] = "upd_unlock"]

\* temperatures = [d.get_temperature() for d in self.devs], one device a step.
UpdRead(t) ==
    /\ pc[t] = "upd_read"
    /\ IF ~has_devs
       THEN \* AttributeError: the Updater has no attribute devs
            /\ exc' = [exc EXCEPT ![t] = TRUE]
            /\ pc' = [pc EXCEPT ![t] = "upd_unlock"]
            /\ h' = [h EXCEPT ![t].failed = TRUE, ![t].cause = "nodevs"]
            /\ UNCHANGED <<i, temperatures>>
       ELSE IF i[t] <= Len(devs)
       THEN \/ \E r \in Readings :
                 /\ temperatures' = [temperatures EXCEPT ![t] = Append(@, r)]
                 /\ i' = [i EXCEPT ![t] = @ + 1]
                 /\ h' = [h EXCEPT ![t].reads = @ + 1]
                 /\ UNCHANGED <<exc, pc>>
            \/ /\ OnReadRaise(t)
               /\ h' = [h EXCEPT ![t].reads = @ + 1, ![t].readFailed = TRUE,
                                 ![t].failed = TRUE, ![t].cause = "read",
                                 ![t].envFail = TRUE]
       ELSE /\ pc' = [pc EXCEPT ![t] = "upd_max"]
            /\ i' = [i EXCEPT ![t] = 1]
            /\ UNCHANGED <<temperatures, exc, h>>
    /\ UNCHANGED <<testmode, has_devs, devs, usb_lock, oids, ret>>

\* max() of an empty list raises ValueError: the with block is left.
OnMaxEmptySkip(t) ==
    /\ exc' = exc
    /\ pc' = [pc EXCEPT ![t] = "upd_unlock"]
OnMaxEmpty(t) ==
    /\ exc' = [exc EXCEPT ![t] = TRUE]
    /\ pc' = [pc EXCEPT ![t] = "upd_unlock"]

\* self.snmp_pp.add_int('318.1.1.1.2.2.2.0', int(max(temperatures)))
UpdMax(t) ==
    /\ pc[t] = "upd_max"
    /\ IF temperatures[t] = <<>>
       THEN /\ OnMaxEmpty(t)
            /\ h' = [h EXCEPT ![t].failed = TRUE, ![t].cause = "empty"]
            /\ oids' = oids
       ELSE /\ oids' = AddInt(oids, AggOid, Trunc(SeqMax(temperatures[t])))
            /\ h' = [h EXCEPT ![t].wlog =
                        Logged(t, AggOid, Trunc(SeqMax(temperatures[t])), "reading")]
            /\ pc' = [pc EXCEPT ![t] = "upd_pub"]
            /\ exc' = exc
    /\ UNCHANGED <<testmode, has_devs, devs, usb_lock, ret, i, temperatures>>

\* for i, temperature in enumerate(temperatures[:3]): add_int(..., int(temperature))
UpdPublish(t) ==
    /\ pc[t] = "upd_pub"
    /\ IF i[t] <= Len(Slice3(temperatures[t]))
       THEN /\ oids' = AddInt(oids, DevOid(i[t]), Trunc(Slice3(temperatures[t])[i[t]]))
            /\ h' = [h EXCEPT ![t].wlog =
                        Logged(t, DevOid(i[t]), Trunc(Slice3(temperatures[t])[i[t]]),
                               "reading")]
            /\ i' = [i EXCEPT ![t] = @ + 1]
            /\ pc' = pc
       ELSE /\ pc' = [pc EXCEPT ![t] = "upd_unlock"]
            /\ i' = [i EXCEPT ![t] = 1]
            /\ UNCHANGED <<oids, h>>
    /\ UNCHANGED <<testmode, has_devs, devs, usb_lock, ret, temperatures, exc>>

\* End of the with block of update(): the lock is released, on the normal
\* path and on the exception path; then update() returns or enters except.
UpdReleaseAlwaysReinit(t) ==
    /\ pc[t] = "upd_unlock"
    /\ usb_lock' = NoThread
    /\ pc' = [pc EXCEPT ![t] = IF exc[t] THEN "upd_except" ELSE "reinit_lock"]
    /\ exc' = [exc EXCEPT ![t] = FALSE]
    /\ UNCHANGED <<testmode, has_devs, devs, oids, ret, i, temperatures, h>>
UpdRelease(t) ==
    /\ pc[t] = "upd_unlock"
    /\ usb_lock' = NoThread
    /\ pc' = [pc EXCEPT ![t] = IF exc[t] THEN "upd_except" ELSE "returned"]
    /\ exc' = [exc EXCEPT ![t] = FALSE]
    /\ UNCHANGED <<testmode, has_devs, devs, oids, ret, i, temperatures, h>>

\* The except clause of update(): for oid in (...): add_int(oid, ERROR_TEMPERATURE),
\* then self._reinitialize().
UpdSentinel(t) ==
    /\ pc[t] = "upd_except"
    /\ IF i[t] <= Len(SentinelOids)
       THEN /\ oids' = AddInt(oids, SentinelOids[i[t]], ERROR_TEMPERATURE)
            /\ h' = [h EXCEPT ![t].wlog =
                        Logged(t, SentinelOids[i[t]], ERROR_TEMPERATURE, "sentinel")]
            /\ i' = [i EXCEPT ![t] = @ + 1]
            /\ pc' = pc
       ELSE /\ pc' = [pc EXCEPT ![t] = "reinit_lock"]
            /\ h' = [h EXCEPT ![t].reinits = @ + 1]
            /\ i' = [i EXCEPT ![t] = 1]
            /\ oids' = oids
    /\ UNCHANGED <<testmode, has_devs, devs, usb_lock, ret, temperatures, exc>>

\* ---------------------------------------------------------- _reinitialize
\* with self.usb_lock: (entry) in _reinitialize.
ReinitAcquireNoLock(t) ==
    /\ pc[t] = "reinit_lock"
    /\ i' = [i EXCEPT ![t] = 1]
    /\ pc' = [pc EXCEPT ![t] = "reinit_close"]
    /\ UNCHANGED <<testmode, has_devs, devs, usb_lock, oids, ret, temperatures, exc, h>>
ReinitAcquire(t) ==
    /\ pc[t] = "reinit_lock"
    /\ usb_lock = NoThread
    /\ usb_lock' = t
    /\ i' = [i EXCEPT ![t] = 1]
    /\ h' = [h EXCEPT ![t].locks = @ + 1]
    /\ pc' = [pc EXCEPT ![t] = "reinit_close"]
    /\ UNCHANGED <<testmode, has_devs, devs, oids, ret, temperatures, exc>>

\* d.close() raises: caught inside the loop and logged, the loop goes on.
OnCloseRaiseAbort(t) ==
    /\ i' = [i EXCEPT ![t] = 1]
    /\ pc' = [pc EXCEPT ![t] = "reinit_unlock"]
OnCloseRaise(t) ==
    /\ i' = [i EXCEPT ![t] = @ + 1]
    /\ pc' = pc

\* for i, d in enumerate(self.devs): try: d.close() except: log
ReinitClose(t) ==
    /\ pc[t] = "reinit_close"
    /\ IF ~has_devs
       THEN \* AttributeError, outside the try of the loop body
            /\ exc' = [exc EXCEPT ![t] = TRUE]
            /\ pc' = [pc EXCEPT ![t] = "reinit_unlock"]
            /\ UNCHANGED <<devs, i, h>>
       ELSE IF i[t] <= Len(devs)
       THEN /\ devs' = [devs EXCEPT ![i[t]].closed = TRUE]
            /\ exc' = exc
            /\ \/ /\ i' = [i EXCEPT ![t] = @ + 1]
                  /\ pc' = pc
                  /\ h' = [h EXCEPT ![t].closeLog =
                              Append(@, [pos |-> i[t], raised |-> FALSE])]
               \/ /\ OnCloseRaise(t)
                  /\ h' = [h EXCEPT ![t].closeLog =
                              Append(@, [pos |-> i[t], raised |-> TRUE]),
                                    ![t].envFail = TRUE]
       ELSE /\ pc' = [pc EXCEPT ![t] = "reinit_unlock"]
            /\ i' = [i EXCEPT ![t] = 1]
            /\ UNCHANGED <<devs, exc, h>>
    /\ UNCHANGED <<testmode, has_devs, usb_lock, oids, ret, temperatures>>

\* End of the with block of _reinitialize; then self._initialize(), unless
\* an exception is propagating: it leaves _reinitialize and update().
ReinitReleaseHeld(t) ==
    /\ pc[t] = "reinit_unlock"
    /\ IF exc[t]
       THEN /\ pc' = [pc EXCEPT ![t] = "raised"]
            /\ ret' = ret
            /\ usb_lock' = NoThread
       ELSE /\ pc' = [pc EXCEPT ![t] = "init_lock"]
            /\ ret' = [ret EXCEPT ![t] = "reinit"]
            /\ usb_lock' = usb_lock
    /\ exc' = [exc EXCEPT ![t] = FALSE]
    /\ UNCHANGED <<testmode, has_devs, devs, oids, i, temperatures, h>>
ReinitRelease(t) ==
    /\ pc[t] = "reinit_unlock"
    /\ usb_lock' = NoThread
    /\ IF exc[t]
       THEN /\ pc' = [pc EXCEPT ![t] = "raised"]
            /\ ret' = ret
       ELSE /\ pc' = [pc EXCEPT ![t] = "init_lock"]
            /\ ret' = [ret EXCEPT ![t] = "reinit"]
    /\ exc' = [exc EXCEPT ![t] = FALSE]
    /\ UNCHANGED <<testmode, has_devs, devs, oids, i, temperatures, h>>

\* The caller of update() has the result (a return or an exception) and
\* may call again: snmp_pp.start(upd.update, 5).
Return(t) ==
    /\ pc[t] \in {"returned", "raised"}
    /\ pc' = [pc EXCEPT ![t] = "idle"]
    /\ ret' = [ret EXCEPT ![t] = "ctor"]
    /\ temperatures' = [temperatures EXCEPT ![t] = <<>>]
    /\ h' = [h EXCEPT ![t] = [CleanHist EXCEPT !.prevClean = (t = 1 /\ ~h[t].envFail)]]
    /\ UNCHANGED <<testmode, has_devs, devs, usb_lock, oids, i, exc>>

\* ----------------------------------------------------------- specifications
Step(t) ==
    \/ Construct(t)
    \/ InitAcquire(t)
    \/ InitDiscover(t)
    \/ InitRead(t)
    \/ InitRelease(t)
    \/ UpdateTest(t)
    \/ UpdateEnter(t)
    \/ UpdAcquire(t)
    \/ UpdRead(t)
    \/ UpdMax(t)
    \/ UpdPublish(t)
    \/ UpdRelease(t)
    \/ UpdSentinel(t)
    \/ ReinitAcquire(t)
    \/ ReinitClose(t)
    \/ ReinitRelease(t)
    \/ Return(t)

\* One scheduler thread: update() calls never overlap (main()).
Next == Step(1)
Spec == Init /\ [][Next]_vars

\* Two callers of update(): calls may overlap.
\* The registry and the readings are kept small there.
OverlapBound ==
    /\ Len(devs) <= MaxOverlapDevs
    /\ \A t \in Threads : \A k \in DOMAIN temperatures[t] :
          temperatures[t][k] = MaxReading
NextOverlap ==
    \E t \in Threads :
        \/ Construct(t) /\ OverlapBound'
        \/ InitAcquire(t) /\ OverlapBound'
        \/ InitDiscover(t) /\ OverlapBound'
        \/ InitRead(t) /\ OverlapBound'
        \/ InitRelease(t) /\ OverlapBound'
        \/ UpdateTest(t) /\ OverlapBound'
        \/ UpdateEnter(t) /\ OverlapBound'
        \/ UpdAcquire(t) /\ OverlapBound'
        \/ UpdRead(t) /\ OverlapBound'
        \/ UpdMax(t) /\ OverlapBound'
        \/ UpdPublish(t) /\ OverlapBound'
        \/ UpdRelease(t) /\ OverlapBound'
        \/ UpdSentinel(t) /\ OverlapBound'
        \/ ReinitAcquire(t) /\ OverlapBound'
        \/ ReinitClose(t) /\ OverlapBound'
        \/ ReinitRelease(t) /\ OverlapBound'
        \/ Return(t) /\ OverlapBound'
SpecOverlap == Init /\ [][NextOverlap]_vars

\* ------------------------------------------------------ vocabulary of claims
\* The four published identifiers.
PublishedOids == {AggOid, DeviceOids[1], DeviceOids[2], DeviceOids[3]}

\* v is x (in 1/Scale degree) with its fractional part discarded.
IsTruncOf(v, x) ==
    IF x >= 0 THEN v * Scale <= x /\ x < (v + 1) * Scale
              ELSE (v - 1) * Scale < x /\ x <= v * Scale

\* m is the largest element of s.
IsMaxOf(m, s) ==
    /\ \E k \in DOMAIN s : s[k] = m
    /\ \A k \in DOMAIN s : s[k] <= m

\* The identifiers the current call of thread t has written so far.
Written(t) == {h[t].wlog[k].oid : k \in DOMAIN h[t].wlog}

\* The call of thread t has ended: it returned, or an exception left it.
Ended(t) == pc[t] \in {"returned", "raised"}

\* The call of thread t ended in normal mode with every read successful.
Succeeded(t) == pc[t] = "returned" /\ ~testmode /\ ~h[t].failed

\* Identifier o has the same presence and value before and after a step.
Kept(o) ==
    /\ (o \in DOMAIN oids) = (o \in DOMAIN oids')
    /\ o \in DOMAIN oids => oids'[o] = oids[o]

AllSentinel == \A o \in PublishedOids : o \in DOMAIN oids /\ oids[o] = ERROR_TEMPERATURE

\* Thread u is between the start of its closing phase and the end of its
\* rediscovery phase.
MidReinit(u) ==
    \/ pc[u] \in {"reinit_close", "reinit_unlock"}
    \/ ret[u] = "reinit" /\ pc[u] \in {"init_lock", "init_disc", "init_read", "init_unlock"}

\* ------------------------------------------------------------------- claims
\* C1: update() never raises: no call of update() ends with an exception
\* leaving it, whatever failures happened before or during the call.
UpdateNeverRaises == \A t \in Threads : pc[t] # "raised"

\* C2: if a device read raised during the read batch of an update() call,
\* then when the call ends all four identifiers hold 9999 and reinitialize
\* has been invoked exactly once during the call.
FailureSentinel ==
    \A t \in Threads :
        (Ended(t) /\ h[t].readFailed) => (AllSentinel /\ h[t].reinits = 1)

\* C2 witness: a call has ended whose second read raised after the first
\* succeeded, on a registry of three devices.
FailureSentinelWitness ==
    /\ pc[1] = "returned" /\ h[1].readFailed /\ h[1].reads = 2
    /\ Len(h[1].closeLog) = 3 /\ AllSentinel

\* C3: no identifier is written with a value derived from the readings of a
\* cycle unless every device of the registry was read successfully; when a
\* read raised, the only writes of the cycle are the sentinel writes.
NoPartialPublication ==
    \A t \in Threads :
        LET w == h[t].wlog IN
        /\ (\E k \in DOMAIN w : w[k].src = "reading") =>
              /\ ~h[t].readFailed
              /\ h[t].reads = Len(devs)
              /\ Len(temperatures[t]) = Len(devs)
        /\ h[t].readFailed =>
              \A k \in DOMAIN w : w[k].src = "sentinel" /\ w[k].val = ERROR_TEMPERATURE

\* C3 witness: the third read raised after two successful reads, and the
\* call ended having made only the four sentinel writes.
NoPartialPublicationWitness ==
    /\ pc[1] = "returned" /\ h[1].readFailed /\ h[1].reads = 3
    /\ Len(h[1].wlog) = 4

\* C4: after an update() over a non-empty registry whose reads all
\* succeeded, the aggregate identifier holds the maximum of the readings
\* with its fractional part discarded.
AggregateCorrect ==
    \A t \in Threads :
        Succeeded(t) =>
            /\ temperatures[t] # <<>>
            /\ AggOid \in DOMAIN oids
            /\ \E m \in Readings :
                  IsMaxOf(m, temperatures[t]) /\ IsTruncOf(oids[AggOid], m)

\* C4 witness: two devices read 1.5 and -0.5 degrees (in halves: 3 and -1)
\* and the aggregate became 1, not 1.5 rounded.
AggregateCorrectWitness ==
    /\ Succeeded(1) /\ temperatures[1] = <<MaxReading, -1>>
    /\ IsTruncOf(oids[AggOid], MaxReading) /\ oids[AggOid] * Scale # MaxReading

\* C5: a successful update() over N devices writes exactly min(N,3)
\* per-device identifiers, identifier i holding the truncated reading of the
\* device at position i; identifiers of absent positions are not written and
\* keep their value through the call.
PerDeviceWritten ==
    \A t \in Threads :
        Succeeded(t) =>
            LET n == Len(temperatures[t])
                m == IF n < 3 THEN n ELSE 3
            IN  /\ Written(t) \ {AggOid} = {DeviceOids[k] : k \in 1..m}
                /\ Len(h[t].wlog) = m + 1
                /\ \A k \in 1..m :
                      /\ DeviceOids[k] \in DOMAIN oids
                      /\ IsTruncOf(oids[DeviceOids[k]], temperatures[t][k])
AbsentKept ==
    \A t \in Threads : \A k \in 1..3 :
        (/\ ~testmode
         /\ pc[t] \notin {"new", "idle"}
         /\ ret[t] = "ctor"
         /\ ~h'[t].failed
         /\ k > Len(devs)) => Kept(DeviceOids[k])
PerDeviceMapping == []PerDeviceWritten /\ [][AbsentKept]_vars

\* C5 witness: a successful call over two devices has ended; identifier 3
\* still holds the 9999 of an earlier failed cycle.
PerDeviceMappingWitness ==
    /\ Succeeded(1) /\ Len(temperatures[1]) = 2
    /\ DeviceOids[3] \in DOMAIN oids /\ oids[DeviceOids[3]] = ERROR_TEMPERATURE
    /\ DeviceOids[3] \notin Written(1)

\* C6: in test mode every update() call writes exactly aggregate=99,
\* device1=97, device2=98, device3=99, whatever the registry, and during the
\* call the lock is not acquired, no device is read or closed, no discovery
\* runs and the registry is unchanged.
SyntheticTable ==
    \A t \in Threads :
        (testmode /\ Ended(t)) =>
            /\ pc[t] = "returned"
            /\ DOMAIN oids = PublishedOids
            /\ oids[AggOid] = 99 /\ oids[DeviceOids[1]] = 97
            /\ oids[DeviceOids[2]] = 98 /\ oids[DeviceOids[3]] = 99
            /\ Written(t) = PublishedOids /\ Len(h[t].wlog) = 4
            /\ h[t].locks = 0 /\ h[t].reads = 0 /\ h[t].closeLog = <<>>
            /\ h[t].discs = 0 /\ h[t].reinits = 0
SyntheticFrame ==
    \A t \in Threads :
        (testmode /\ pc[t] = "idle" /\ pc'[t] # "idle") =>
            /\ pc'[t] = "returned"
            /\ UNCHANGED <<usb_lock, has_devs, devs>>
SyntheticMode == []SyntheticTable /\ [][SyntheticFrame]_vars

\* C6 witness: a test-mode call has returned on an Updater whose
\* construction-time discovery found three devices.
SyntheticModeWitness ==
    /\ testmode /\ pc[1] = "returned" /\ has_devs /\ Len(devs) = 3
    /\ oids[DeviceOids[1]] = 97

\* C7 as stated: every poll cycle that completes has written each of the
\* four identifiers during that cycle.
EveryCycleWritesAllFour ==
    \A t \in Threads : Ended(t) => PublishedOids \subseteq Written(t)

\* C7 as amended: every poll cycle that completes has written an integer to
\* the aggregate identifier and to the per-device identifier of every
\* position that holds a device (to all four when the cycle fails or in test
\* mode); the identifier of a position beyond the registry is not written by
\* a successful cycle and is then absent from the table or holds the 9999
\* left by an earlier failed cycle.
CycleWritesPresent ==
    \A t \in Threads :
        Ended(t) =>
            /\ AggOid \in Written(t)
            /\ \A k \in 1..3 :
                  (DeviceOids[k] \in Written(t)) <=>
                      (testmode \/ h[t].failed \/ k <= Len(temperatures[t]))
            /\ \A o \in Written(t) : o \in DOMAIN oids /\ oids[o] \in Int
            /\ \A o \in (PublishedOids \ Written(t)) \cap DOMAIN oids :
                  oids[o] = ERROR_TEMPERATURE

\* C7 witness: a successful cycle over one device has ended, and identifiers
\* 2 and 3 hold the 9999 left over from an earlier cycle.
CycleWritesPresentWitness ==
    /\ Succeeded(1) /\ Len(temperatures[1]) = 1
    /\ Written(1) = {AggOid, DeviceOids[1]}
    /\ oids[DeviceOids[1]] # ERROR_TEMPERATURE
    /\ DeviceOids[2] \in DOMAIN oids /\ oids[DeviceOids[2]] = ERROR_TEMPERATURE
    /\ DeviceOids[3] \in DOMAIN oids /\ oids[DeviceOids[3]] = ERROR_TEMPERATURE

\* C8 as stated: every written identifier holds a non-negative integer (the
\* sentinel 9999 is one).
NonNegativeOrSentinel ==
    \A o \in DOMAIN oids : oids[o] \in Int /\ oids[o] >= 0

\* C8 as amended: every written identifier holds the sentinel 9999, a
\* test-mode value, or a reading truncated toward zero: non-negative for a
\* reading above -1 degree, negative for a reading of -1 degree or below.
TruncatedOrSentinel ==
    \A o \in DOMAIN oids :
        \/ oids[o] = ERROR_TEMPERATURE
        \/ testmode /\ oids[o] \in {97, 98, 99}
        \/ \E r \in Readings :
              /\ IsTruncOf(oids[o], r)
              /\ (oids[o] < 0) <=> (r <= -Scale)

\* C8 witness: a device read below -1 degree and its identifier is negative.
TruncatedOrSentinelWitness ==
    /\ Succeeded(1) /\ temperatures[1][1] = -MaxReading
    /\ oids[DeviceOids[1]] < 0

\* C9: in a reinitialize over a registry, whichever close() calls raise,
\* every device gets exactly one close attempt, in registry order, and
\* discovery then runs exactly once.
RecoveryIsolation ==
    \A t \in Threads :
        /\ (pc[t] = "reinit_unlock" /\ ~exc[t]) =>
              /\ Len(h[t].closeLog) = Len(devs)
              /\ \A k \in DOMAIN h[t].closeLog : h[t].closeLog[k].pos = k
              /\ \A k \in DOMAIN devs : devs[k].closed
        /\ (ret[t] = "reinit" /\ pc[t] \in {"init_lock", "init_disc"}) => h[t].discs = 0
        /\ (Ended(t) /\ h[t].reinits >= 1 /\ has_devs) =>
              h[t].reinits = 1 /\ h[t].discs = 1

\* C9 witness: a reinitialize over three devices has ended in which the
\* close of device 2 raised and the other two did not.
RecoveryIsolationWitness ==
    /\ pc[1] = "returned" /\ h[1].reinits = 1 /\ h[1].discs = 1
    /\ Len(h[1].closeLog) = 3
    /\ ~h[1].closeLog[1].raised /\ h[1].closeLog[2].raised /\ ~h[1].closeLog[3].raised

\* C10: when update() calls overlap, no thread is inside its read batch,
\* having read a handle of the registry, while another thread is between
\* the start of its closing phase and the end of its rediscovery phase.
LockNonInterleaving ==
    \A t \in Threads : \A u \in Threads \ {t} :
        ~(pc[t] = "upd_read" /\ h[t].reads > 0 /\ MidReinit(u))

\* Thread t is inside _initialize.
InInitialize(t) == pc[t] \in {"init_lock", "init_disc", "init_read", "init_unlock"}

\* Thread t is inside a section guarded by the registry lock: the read
\* batch and publication of update(), the close loop of _reinitialize, the
\* discovery and initial reads of _initialize.
InGuarded(t) ==
    pc[t] \in {"upd_read", "upd_max", "upd_pub", "upd_unlock",
               "reinit_close", "reinit_unlock",
               "init_disc", "init_read", "init_unlock"}

\* Thread t is about to acquire the registry lock.
AtAcquire(t) == pc[t] \in {"init_lock", "upd_lock", "reinit_lock"}

\* The registry is exactly n handles as discovery returns them: in discovery
\* order, none of them closed.
IsDiscovery(n) ==
    /\ has_devs
    /\ Len(devs) = n
    /\ \A k \in DOMAIN devs : devs[k].pos = k /\ ~devs[k].closed

\* C11: _initialize swallows every discovery failure: whether discovery or
\* an initial read raises, it returns normally (to __init__ or to
\* _reinitialize) with the lock released, and no step of it writes to the
\* value table.
InitializeQuiet ==
    \A t \in Threads :
        InInitialize(t) =>
            /\ oids' = oids
            /\ pc'[t] # "raised"
            /\ pc[t] = "init_unlock" =>
                  /\ pc'[t] \in {"init_unlock", "idle", "returned"}
                  /\ pc'[t] # "init_unlock" => usb_lock' = NoThread
InitializeDone ==
    \A t \in Threads :
        (h[t].initFail # "none" /\ ~InInitialize(t)) =>
            /\ pc[t] \in {"idle", "returned"}
            /\ usb_lock # t
            /\ ret[t] = "ctor" /\ pc[t] = "idle" => oids = EmptyTable
InitializeSwallows == []InitializeDone /\ [][InitializeQuiet]_vars

\* C11 witness: construction has returned although the initial read of one
\* of two discovered devices raised; the lock is free and the table empty.
InitializeSwallowsWitness ==
    /\ pc[1] = "idle" /\ h[1].initFail = "read" /\ has_devs /\ Len(devs) = 2
    /\ usb_lock = NoThread /\ oids = EmptyTable

\* C12: an update() in normal mode over a registry of zero devices returns
\* normally, having written 9999 to all four identifiers and nothing else,
\* and having invoked reinitialize exactly once.
EmptyRegistryStep ==
    \A t \in Threads :
        (pc[t] = "upd_max" /\ pc'[t] # "upd_max" /\ has_devs /\ Len(devs) = 0) =>
            h'[t].cause = "empty"
EmptyRegistryEnd ==
    \A t \in Threads :
        (Ended(t) /\ h[t].cause = "empty") =>
            /\ pc[t] = "returned"
            /\ AllSentinel
            /\ Len(h[t].wlog) = 4
            /\ Written(t) = PublishedOids
            /\ \A k \in DOMAIN h[t].wlog : h[t].wlog[k].val = ERROR_TEMPERATURE
            /\ h[t].reinits = 1 /\ h[t].closeLog = <<>> /\ h[t].reads = 0
EmptyRegistry == []EmptyRegistryEnd /\ [][EmptyRegistryStep]_vars

\* C12 witness: a call over an empty registry has returned, and the
\* rediscovery of its reinitialize found no device again.
EmptyRegistryWitness ==
    /\ pc[1] = "returned" /\ h[1].cause = "empty" /\ h[1].reinits = 1
    /\ has_devs /\ Len(devs) = 0 /\ AllSentinel

\* C13: every read of a handle of the registry and every replacement of the
\* registry is made by a thread that holds the registry lock, and at most
\* one thread is inside a lock-guarded section, however update() calls
\* interleave.
GuardedHoldsLock ==
    /\ \A t \in Threads : InGuarded(t) => usb_lock = t
    /\ \A t \in Threads : \A u \in Threads \ {t} : ~(InGuarded(t) /\ InGuarded(u))
RegistryUnderLock ==
    /\ (devs' # devs \/ has_devs' # has_devs) =>
          /\ usb_lock # NoThread
          /\ pc[usb_lock] \in {"init_disc", "reinit_close"}
          /\ pc'[usb_lock] # pc[usb_lock] \/ i'[usb_lock] # i[usb_lock]
    /\ \A t \in Threads :
          (/\ pc[t] \notin {"idle", "returned", "raised"}
           /\ \/ h'[t].reads # h[t].reads
              \/ h'[t].closeLog # h[t].closeLog
              \/ h'[t].discs # h[t].discs) => usb_lock = t
LockDiscipline == []GuardedHoldsLock /\ [][RegistryUnderLock]_vars

\* C13 witness: one thread is closing the devices under the lock while the
\* other waits to enter its read batch.
LockDisciplineWitness ==
    /\ pc[1] = "reinit_close" /\ usb_lock = 1 /\ Len(h[1].closeLog) = 1
    /\ pc[2] = "upd_lock"

\* C14: a thread never tries to acquire the registry lock while it holds it,
\* and it does not hold the lock when update(), _reinitialize() or
\* _initialize() has ended, by return or by exception.
NoSelfDeadlock ==
    \A t \in Threads :
        /\ AtAcquire(t) => usb_lock # t
        /\ pc[t] \in {"new", "idle", "returned", "raised", "upd_except"} => usb_lock # t
        /\ (Ended(t) /\ h[t].reinits = 1 /\ has_devs) => h[t].locks = 3

\* C14 witness: a thread is between the two phases of _reinitialize, about
\* to acquire the lock in _initialize, and the lock is free.
NoSelfDeadlockWitness ==
    /\ pc[1] = "init_lock" /\ ret[1] = "reinit" /\ usb_lock = NoThread
    /\ h[1].locks = 2 /\ Len(h[1].closeLog) = 2

\* C15: when a _reinitialize() over a registry ends, every handle of the registry was returned
\* by its discovery run, or the registry is empty if that discovery failed;
\* no handle closed in the closing phase is still in it.
ReadyIsFresh ==
    \A t \in Threads :
        (Ended(t) /\ h[t].reinits = 1 /\ has_devs) =>
            /\ h[t].initFail = "discover" => devs = <<>>
            /\ \A k \in DOMAIN devs : ~devs[k].closed

\* C16: every failing poll publishes 9999 to all four identifiers and runs
\* exactly one reinitialize attempt: one closing phase and one discovery
\* attempt.
EveryFailureRecovers ==
    \A t \in Threads :
        (Ended(t) /\ h[t].failed) =>
            /\ AllSentinel
            /\ h[t].reinits = 1
            /\ h[t].discs = 1

\* C17: once the transport no longer fails (discovery finds a device, every
\* read and close succeeds), at most two further update() calls are needed:
\* a call without transport failure that follows a call without transport
\* failure ends with the aggregate holding the truncated maximum of its
\* readings.
RecoversInTwoPolls ==
    (~testmode /\ Ended(1) /\ h[1].prevClean /\ ~h[1].envFail) =>
        /\ pc[1] = "returned"
        /\ ~h[1].failed
        /\ AggOid \in DOMAIN oids
        /\ \E m \in Readings :
              IsMaxOf(m, temperatures[1]) /\ IsTruncOf(oids[AggOid], m)

\* C18: an update() in normal mode whose reads all succeed on a non-empty
\* registry closes no device, runs no discovery, does not invoke
\* reinitialize and leaves the registry as it was; reinitialize is entered
\* only from the failure path of update().
SuccessIsQuiet ==
    \A t \in Threads :
        /\ Succeeded(t) =>
              /\ h[t].closeLog = <<>> /\ h[t].discs = 0 /\ h[t].reinits = 0
              /\ h[t].locks = 1
              /\ h[t].reads = Len(devs) /\ Len(temperatures[t]) = Len(devs)
        /\ (pc[t] \in {"reinit_lock", "reinit_close", "reinit_unlock"}
              \/ h[t].reinits > 0) => (~testmode /\ h[t].failed)
SuccessKeepsRegistry ==
    \A t \in Threads :
        (/\ pc[t] \in {"upd_lock", "upd_read", "upd_max", "upd_pub", "upd_unlock",
                       "reinit_lock", "reinit_close", "reinit_unlock"}
         /\ ~h'[t].failed) => UNCHANGED <<has_devs, devs>>
SuccessLeavesRegistry == []SuccessIsQuiet /\ [][SuccessKeepsRegistry]_vars

\* C18 witness: a successful call over three open devices has returned.
SuccessLeavesRegistryWitness ==
    /\ Succeeded(1) /\ IsDiscovery(3) /\ Len(temperatures[1]) = 3
    /\ h[1].closeLog = <<>>

\* C19: a call of _initialize makes exactly one discovery attempt, and when
\* the enumeration succeeded the registry at its end is exactly the
\* discovered sequence, in discovery order, with no handle of the previous
\* registry, also when an initial read raised.
SingleDiscovery ==
    \A t \in Threads :
        /\ h[t].discs <= 1
        /\ pc[t] \in {"init_lock", "init_disc"} => h[t].discs = 0 /\ h[t].found = -1
        /\ pc[t] \in {"init_read", "init_unlock"} =>
              /\ h[t].discs = 1
              /\ (h[t].initFail = "discover") <=> (h[t].found = -1)
              /\ h[t].found >= 0 => IsDiscovery(h[t].found)

\* C19 witness: a rediscovery that found two devices over a registry of
\* three closed ones ends, an initial read having raised.
SingleDiscoveryWitness ==
    /\ pc[1] = "init_unlock" /\ ret[1] = "reinit" /\ h[1].initFail = "read"
    /\ h[1].found = 2 /\ Len(h[1].closeLog) = 3 /\ Len(devs) = 2

====
